---------------------------- MODULE Spec2Model ----------------------------
(***************************************************************************)
(* ERA5 interactive cookbook.                                              *)
(*                                                                         *)
(* Two independent programs are modelled:                                  *)
(*  - notebooks/02InteractiveVisualization.ipynb: open the remote dataset, *)
(*    select a time slice, regrid it with a Delaunay triangulation and     *)
(*    barycentric interpolation, wrap the result and plot it with time     *)
(*    sliders (specification SpecNotebook);                                *)
(*  - notebooks/Containerfile and the build/run walkthrough that goes with *)
(*    it: layered image build with a layer cache, and a run of the image   *)
(*    (specification SpecContainer).                                       *)
(*                                                                         *)
(* Floating point numbers are modelled as exact rationals <<num, den>>;    *)
(* NaN is <<0, 0>>.  Python sequences are TLA+ sequences read through      *)
(* PyIndex, which keeps Python's 0-based and negative indexing.            *)
(***************************************************************************)
EXTENDS Integers, Sequences, FiniteSets, TLC

VARIABLES
    \* ---- notebook ----
    remote,         \* the remote Zarr store: coordinates, time axis, msl, t2m
    pc,             \* the next notebook step
    err,            \* "none", or the exception that stopped the run
    log,            \* the steps executed so far, in order
    attempts,       \* how many times each external call was issued
    reanalysis,     \* TRUE once the store is open (msl, t2m are bound)
    msl93, t2m93,   \* the selected, computed and mirrored slices
    tri,            \* the triangulation
    longitude, latitude,    \* the axes of the target grid
    mesh,           \* the target mesh
    grid_mesh_msl, grid_mesh_t2m,   \* the regridded arrays
    da_msl, da_t2m, \* the labelled arrays
    slp, t2m,       \* after unit conversion
    t2m_cropped,    \* the cropped T2M array
    plots,          \* the displayed plots: name -> [slider, frame, ...]
    \* ---- container ----
    containerfile,  \* the instructions of the image file, as edited
    repoEnv,        \* packages listed by environment.yml in the git repository
    cache,          \* the layer cache: instruction chain -> image state
    build,          \* the build in progress or last finished
    image,          \* the image last built and tagged
    container       \* the container started from the image

nbVars == <<remote, pc, err, log, attempts, reanalysis, msl93, t2m93, tri,
            longitude, latitude, mesh, grid_mesh_msl, grid_mesh_t2m, da_msl, da_t2m, slp, t2m,
            t2m_cropped, plots>>
ctVars == <<containerfile, repoEnv, cache, build, image, container>>
vars == <<nbVars, ctVars>>

---------------------------------------------------------------------------
(* Bounds of the model.                                                    *)

\* Number of time steps the selected slice holds (the notebook selects 7).
SliceLen == 2
\* Number of points of the target mesh along longitude and latitude
\* (the notebook uses 360*4+1 and 180*4+1).
NLon == 4
NLat == 5
\* The largest number of longitudes on a latitude row of the native grid.
SrcLon == 3
\* How many times the image file is edited and how many builds are run.
MaxEdits == 1
MaxBuilds == 2

---------------------------------------------------------------------------
(* Exact rational arithmetic standing for float64.                         *)

Abs(n) == IF n < 0 THEN -n ELSE n

RECURSIVE GCD(_, _)
GCD(a, b) == IF b = 0 THEN Abs(a) ELSE GCD(b, a % b)

LCM(a, b) == (a \div GCD(a, b)) * b

NaN == <<0, 0>>

IsNaN(x) == x[2] = 0

Rat(n, d) ==
    IF d = 0 THEN NaN
    ELSE LET g == GCD(Abs(n), Abs(d))
             s == IF d < 0 THEN -1 ELSE 1
         IN  <<s * (Abs(n) \div g) * (IF n < 0 THEN -1 ELSE 1), Abs(d) \div g>>

RInt(n) == <<n, 1>>

RAdd(a, b) ==
    IF IsNaN(a) \/ IsNaN(b) THEN NaN
    ELSE LET l == LCM(a[2], b[2])
         IN  Rat(a[1] * (l \div a[2]) + b[1] * (l \div b[2]), l)

RNeg(a) == IF IsNaN(a) THEN NaN ELSE <<-a[1], a[2]>>

RSub(a, b) == RAdd(a, RNeg(b))

RMul(a, b) ==
    IF IsNaN(a) \/ IsNaN(b) THEN NaN
    ELSE LET g1 == GCD(Abs(a[1]), b[2])
             g2 == GCD(Abs(b[1]), a[2])
             h1 == IF g1 = 0 THEN 1 ELSE g1
             h2 == IF g2 = 0 THEN 1 ELSE g2
         IN  Rat((a[1] \div h1) * (b[1] \div h2), (a[2] \div h2) * (b[2] \div h1))

RDiv(a, b) ==
    IF IsNaN(a) \/ IsNaN(b) \/ b[1] = 0 THEN NaN
    ELSE RMul(a, Rat(b[2], b[1]))

\* IEEE comparisons: any comparison with NaN is false.
RLess(a, b) == ~IsNaN(a) /\ ~IsNaN(b) /\ a[1] * b[2] < b[1] * a[2]

RGeqZero(a) == ~IsNaN(a) /\ a[1] >= 0

---------------------------------------------------------------------------
(* Python indexing.                                                        *)

\* seq[i] in Python: 0-based, a negative index counts from the end.
PyIndexOk(seq, i) == -Len(seq) <= i /\ i < Len(seq)

PyIndex(seq, i) == IF i >= 0 THEN seq[i + 1] ELSE seq[Len(seq) + i + 1]

\* np.linspace(start, stop, num): num evenly spaced samples, both ends included.
Linspace(start, stop, num) ==
    [k \in 1..num |->
        IF num = 1 THEN RInt(start)
        ELSE RAdd(RInt(start), Rat((k - 1) * (stop - start), num - 1))]

---------------------------------------------------------------------------
(* Labelled arrays on the native grid.                                     *)
(* A dataset is [longitude, latitude: sequences over the 'values'          *)
(* dimension (integer degrees), time: sequence of labels, values:          *)
(* time x values of rationals].                                            *)

RECURSIVE SortedSeq(_)
\* A finite set of integers as an increasing sequence.
SortedSeq(S) ==
    IF S = {} THEN <<>>
    ELSE LET m == CHOOSE x \in S : \A y \in S : x <= y
         IN  <<m>> \o SortedSeq(S \ {m})

\* The elements of seq at the positions of idx, in idx's order.
Take(seq, idx) == [k \in 1..Len(idx) |-> seq[idx[k]]]

\* def mirror_point_at_360(ds): the points at longitude 0 are appended
\* again at longitude 360, with the same values.
mirror_point_at_360(ds) ==
    LET at0 == SortedSeq({k \in 1..Len(ds.longitude) : ds.longitude[k] = 0})
        extra == [longitude |-> [k \in 1..Len(at0) |-> ds.longitude[at0[k]] + 360],
                  latitude  |-> Take(ds.latitude, at0),
                  values    |-> [t \in 1..Len(ds.values) |->
                                    Take(ds.values[t], at0)]]
    IN  [longitude |-> ds.longitude \o extra.longitude,
         latitude  |-> ds.latitude \o extra.latitude,
         time      |-> ds.time,
         values    |-> [t \in 1..Len(ds.values) |->
                           ds.values[t] \o extra.values[t]]]

\* ds.sel(time=slice(start, stop)): label-based, both ends included.
sel_time(ds, start, stop) ==
    LET keep == SortedSeq({k \in 1..Len(ds.time) :
                              start <= ds.time[k] /\ ds.time[k] <= stop})
    IN  [longitude |-> ds.longitude,
         latitude  |-> ds.latitude,
         time      |-> Take(ds.time, keep),
         values    |-> Take(ds.values, keep)]

---------------------------------------------------------------------------
(* scipy.spatial.Delaunay over integer points.                             *)

\* Twice the signed area of triangle a, b, c.
Orient(a, b, c) ==
    (b[1] - a[1]) * (c[2] - a[2]) - (b[2] - a[2]) * (c[1] - a[1])

Sq(x) == x * x

\* The in-circle determinant: for a, b, c counter-clockwise it is positive
\* iff d lies strictly inside their circumcircle, zero iff on it.
InCircleDet(a, b, c, d) ==
    LET ax == a[1] - d[1]  ay == a[2] - d[2]
        bx == b[1] - d[1]  by == b[2] - d[2]
        cx == c[1] - d[1]  cy == c[2] - d[2]
    IN    (Sq(ax) + Sq(ay)) * (bx * cy - by * cx)
        - (Sq(bx) + Sq(by)) * (ax * cy - ay * cx)
        + (Sq(cx) + Sq(cy)) * (ax * by - ay * bx)

Sign(n) == IF n > 0 THEN 1 ELSE IF n < 0 THEN -1 ELSE 0

\* > 0: d strictly inside the circumcircle of a, b, c; 0: on it.
InCircle(a, b, c, d) == Sign(Orient(a, b, c)) * Sign(InCircleDet(a, b, c, d))

RECURSIVE GCDAll(_)
GCDAll(S) ==
    IF S = {} THEN 0
    ELSE LET x == CHOOSE y \in S : TRUE IN GCD(x, GCDAll(S \ {x}))

\* The predicates above are invariant under a uniform scaling: the points
\* are divided by the common divisor of their coordinates, which keeps the
\* determinants small.
Rescaled(points) ==
    LET g == GCDAll({points[k][1] : k \in 1..Len(points)}
                    \cup {points[k][2] : k \in 1..Len(points)})
        u == IF g = 0 THEN 1 ELSE g
    IN  [k \in 1..Len(points) |-> <<points[k][1] \div u, points[k][2] \div u>>]

\* The vertex triples (0-based point indices, increasing) whose circumcircle
\* holds no other point strictly inside.
EmptyCircleTriples(points) ==
    LET P == Rescaled(points)
        n == Len(P)
    IN  {s \in (0..n-1) \X (0..n-1) \X (0..n-1) :
            /\ s[1] < s[2] /\ s[2] < s[3]
            /\ Orient(P[s[1]+1], P[s[2]+1], P[s[3]+1]) # 0
            /\ \A l \in 0..n-1 :
                  l \in {s[1], s[2], s[3]}
                  \/ InCircle(P[s[1]+1], P[s[2]+1], P[s[3]+1], P[l+1]) <= 0}

\* The Delaunay triangulation is unique iff no empty circumcircle passes
\* through a fourth point.
Unambiguous(points) ==
    LET P == Rescaled(points)
    IN  \A s \in EmptyCircleTriples(points) : \A l \in 0..Len(P)-1 :
            l \in {s[1], s[2], s[3]}
            \/ InCircle(P[s[1]+1], P[s[2]+1], P[s[3]+1], P[l+1]) # 0

TripleLess(s, u) ==
    \/ s[1] < u[1]
    \/ s[1] = u[1] /\ s[2] < u[2]
    \/ s[1] = u[1] /\ s[2] = u[2] /\ s[3] < u[3]

RECURSIVE SortedTriples(_)
SortedTriples(S) ==
    IF S = {} THEN <<>>
    ELSE LET m == CHOOSE x \in S : \A y \in S : x = y \/ TripleLess(x, y)
         IN  <<m>> \o SortedTriples(S \ {m})

\* tri.transform[s]: rows 0..ndim-1 hold the inverse of T = [v0-v2, v1-v2],
\* row ndim holds r = v2, so that c = T_inv (x - r) are the barycentric
\* coordinates of x for v0 and v1.
Transform(points, s) ==
    LET v0 == points[s[1]+1]  v1 == points[s[2]+1]  v2 == points[s[3]+1]
        t11 == v0[1] - v2[1]  t12 == v1[1] - v2[1]
        t21 == v0[2] - v2[2]  t22 == v1[2] - v2[2]
        det == t11 * t22 - t12 * t21
    IN  << <<Rat(t22, det), Rat(-t12, det)>>,
           <<Rat(-t21, det), Rat(t11, det)>>,
           <<RInt(v2[1]), RInt(v2[2])>> >>

\* scipy.spatial.Delaunay(grid): raises QhullError unless three points are
\* not collinear.
Delaunay(points) ==
    LET S == SortedTriples(EmptyCircleTriples(points))
    IN  IF S = <<>>
        THEN [raised |-> TRUE, points |-> points, simplices |-> <<>>,
              transform |-> <<>>]
        ELSE [raised |-> FALSE, points |-> points, simplices |-> S,
              transform |-> [k \in 1..Len(S) |-> Transform(points, S[k])]]

\* def build_triangulation(x, y): grid = np.stack([x, y], axis=1)
build_triangulation(x, y) ==
    Delaunay([k \in 1..Len(x) |-> <<x[k], y[k]>>])

---------------------------------------------------------------------------
(* The regridding functions of the notebook.                               *)

\* einsum('...ij,...j', M, v) for a 2x2 matrix and a 2-vector.
MatVec(M, v) ==
    [i \in 1..Len(M) |-> RAdd(RMul(M[i][1], v[1]), RMul(M[i][2], v[2]))]

\* The barycentric coordinates of x in simplex number s (0-based), as the
\* notebook computes them from tri.transform.
Barycentric(tr, s, x) ==
    LET ndim  == Len(PyIndex(tr.transform, s)[1])
        T_inv == SubSeq(PyIndex(tr.transform, s), 1, ndim)
        r     == PyIndex(tr.transform, s)[ndim + 1]
        c     == MatVec(T_inv, [k \in 1..ndim |-> RSub(x[k], r[k])])
    IN  c \o <<RSub(RInt(1), RAdd(c[1], c[2]))>>

\* tri.find_simplex(x): the index of a simplex containing x (the lowest
\* one when x lies on a shared edge), -1 when x is outside the hull.
find_simplex(tr, x) ==
    LET inside == {s \in 0..Len(tr.simplices)-1 :
                      LET c == Barycentric(tr, s, x)
                      IN  \A k \in 1..3 : RGeqZero(c[k])}
    IN  IF inside = {} THEN -1
        ELSE CHOOSE s \in inside : \A u \in inside : s <= u

\* The weighted sum with the weights given to the wrong vertices.
WeightedSumRotated(row, simplex, c) ==
    RAdd(RAdd(RMul(PyIndex(row, simplex[1]), c[2]),
              RMul(PyIndex(row, simplex[2]), c[3])),
         RMul(PyIndex(row, simplex[3]), c[1]))

\* einsum('...i,...i', data[t, simplices[s]], c)
WeightedSum(row, simplex, c) ==
    RAdd(RAdd(RMul(PyIndex(row, simplex[1]), c[1]),
              RMul(PyIndex(row, simplex[2]), c[2])),
         RMul(PyIndex(row, simplex[3]), c[3]))

\* interpolate without the final np.where: the value computed from the
\* simplex that index -1 wraps around to is returned as it is.
interpolate_unmasked(data, tr, msh) ==
    [t \in 1..Len(data) |-> [i \in 1..Len(msh) |-> [j \in 1..Len(msh[i]) |->
        LET indices == find_simplex(tr, msh[i][j])
        IN  WeightedSum(data[t], PyIndex(tr.simplices, indices),
                        Barycentric(tr, indices, msh[i][j]))]]]

\* def interpolate(data, tri, mesh): time x longitude x latitude.  Index -1
\* reads the last simplex (Python's negative indexing), so no lookup fails;
\* np.where then replaces the value at those points by NaN.
interpolate(data, tr, msh) ==
    [t \in 1..Len(data) |-> [i \in 1..Len(msh) |-> [j \in 1..Len(msh[i]) |->
        LET indices == find_simplex(tr, msh[i][j])
            result  == WeightedSum(data[t], PyIndex(tr.simplices, indices),
                                   Barycentric(tr, indices, msh[i][j]))
        IN  IF indices = -1 THEN NaN ELSE result]]]

\* Whether every lookup interpolate makes is within range (else IndexError).
interpolate_lookups_ok(data, tr, msh) ==
    \A i \in 1..Len(msh) : \A j \in 1..Len(msh[i]) :
        LET indices == find_simplex(tr, msh[i][j])
        IN  /\ PyIndexOk(tr.transform, indices)
            /\ PyIndexOk(tr.simplices, indices)
            /\ \A t \in 1..Len(data) : \A k \in 1..3 :
                  PyIndexOk(data[t], PyIndex(tr.simplices, indices)[k])

\* np.meshgrid with its default indexing='xy': latitude x longitude.
meshgrid_xy(lon, lat) ==
    [j \in 1..Len(lat) |-> [i \in 1..Len(lon) |-> <<lon[i], lat[j]>>]]

\* The numbers of points the notebook asks np.linspace for; the model runs
\* the same cell with NLon and NLat points.
LonNum == 360 * 4 + 1
LatNum == 180 * 4 + 1

\* np.stack(np.meshgrid(longitude, latitude, indexing='ij'), axis=-1)
meshgrid_ij(lon, lat) ==
    [i \in 1..Len(lon) |-> [j \in 1..Len(lat) |-> <<lon[i], lat[j]>>]]

---------------------------------------------------------------------------
(* The remote store and the notebook's constants.                          *)

\* The native grid is a reduced Gaussian grid: latitude rows strictly
\* between the poles (here at the inner latitudes of the target mesh), each
\* with its own number of evenly spaced longitudes starting at 0.
SrcLat == NLat - 2

RowLatitude(r) == (180 * r) \div (SrcLat + 1) - 90

RowPoints(r, n) == [k \in 1..n |-> <<(360 * (k - 1)) \div n, RowLatitude(r)>>]

RECURSIVE GridPoints(_, _)
\* The points of the first r rows, row by row; counts[r] is the number of
\* longitudes on row r.
GridPoints(counts, r) ==
    IF r = 0 THEN <<>>
    ELSE GridPoints(counts, r - 1) \o RowPoints(r, counts[r])

\* The time axis of the store: one label before and one after the slice.
RemoteTimes == [k \in 1..(SliceLen + 2) |-> k - 1]

\* A field over the points: a ramp in time with one raised sample.
Field(n, hot) ==
    [t \in 1..Len(RemoteTimes) |-> [p \in 1..n |->
        RInt(IF p = hot THEN RemoteTimes[t] + 4 ELSE RemoteTimes[t])]]

Store(points, hot) ==
    [longitude |-> [k \in 1..Len(points) |-> points[k][1]],
     latitude  |-> [k \in 1..Len(points) |-> points[k][2]],
     time      |-> RemoteTimes,
     msl       |-> Field(Len(points), hot),
     t2m       |-> Field(Len(points), Len(points) + 1 - hot)]

\* The stores the notebook may find: every row has SrcLon or SrcLon - 1
\* longitudes, and one sample of each field is raised.
RemoteStores ==
    UNION {{Store(GridPoints(counts, SrcLat), hot) :
                hot \in 1..Len(GridPoints(counts, SrcLat))} :
            counts \in [1..SrcLat -> {SrcLon - 1, SrcLon}]}

Variable(store, name) ==
    [longitude |-> store.longitude, latitude |-> store.latitude,
     time |-> store.time,
     values |-> IF name = "msl" THEN store.msl ELSE store.t2m]

\* slice('1993-03-13T18:00:00', '1993-03-14T00:00:00'), as labels of
\* RemoteTimes.
SliceStart == RemoteTimes[2]
SliceStop == RemoteTimes[SliceLen + 1]

lonW == -130
lonE == -60
latS == 20
latN == 55

Unbound == <<>>

NoPlot == [shown |-> FALSE, slider |-> FALSE, precompute |-> FALSE,
           pos |-> 0, frame |-> 0]

PlotNames == {"contour0", "contour", "qm", "qm_raster"}

\* The notebook's steps in cell order.
Steps == <<"open", "select", "triangulate", "interpolate", "construct",
           "convert", "plot_msl_single", "plot_msl_time", "crop",
           "plot_qm", "plot_raster">>

StepNo(s) == CHOOSE k \in 1..Len(Steps) : Steps[k] = s

\* A notebook whose last cell leads back to the crop.
NextStepRevisit(s) ==
    IF StepNo(s) = Len(Steps) THEN "crop" ELSE Steps[StepNo(s) + 1]

NextStep(s) == IF StepNo(s) = Len(Steps) THEN "end" ELSE Steps[StepNo(s) + 1]

\* What kind of operation each step is.
Stage(s) ==
    CASE s = "open" -> "open dataset"
      [] s \in {"select", "crop"} -> "select/crop"
      [] s = "triangulate" -> "triangulate"
      [] s = "interpolate" -> "interpolate"
      [] s \in {"construct", "convert"} -> "construct result array"
      [] OTHER -> "plot"

InitNotebook ==
    /\ remote \in {r \in RemoteStores :
          LET m == mirror_point_at_360(Variable(r, "msl"))
          IN  Unambiguous([k \in 1..Len(m.longitude) |->
                              <<m.longitude[k], m.latitude[k]>>])}
    /\ pc = "open"
    /\ err = "none"
    /\ log = <<>>
    /\ attempts = [s \in {Steps[k] : k \in 1..Len(Steps)} |-> 0]
    /\ reanalysis = FALSE
    /\ msl93 = Unbound /\ t2m93 = Unbound
    /\ tri = Unbound
    /\ longitude = Unbound /\ latitude = Unbound /\ mesh = Unbound
    /\ grid_mesh_msl = Unbound /\ grid_mesh_t2m = Unbound
    /\ da_msl = Unbound /\ da_t2m = Unbound
    /\ slp = Unbound /\ t2m = Unbound
    /\ t2m_cropped = Unbound
    /\ plots = [n \in PlotNames |-> NoPlot]

---------------------------------------------------------------------------
(* Running the notebook, cell by cell.                                     *)

\* A step has returned: the next cell runs.
Advance(s) ==
    /\ pc' = NextStep(s)
    /\ log' = Append(log, s)
    /\ attempts' = [attempts EXCEPT ![s] = @ + 1]
    /\ err' = err

\* A step that is tried again after its call failed.
RaiseRetry(s, e) ==
    /\ pc' = pc
    /\ log' = log
    /\ attempts' = [attempts EXCEPT ![s] = @ + 1]
    /\ err' = err

\* A step's call has raised: nothing catches the exception, the run stops
\* at this cell.
Raise(s, e) ==
    /\ pc' = pc
    /\ log' = log
    /\ attempts' = [attempts EXCEPT ![s] = @ + 1]
    /\ err' = e

AtStep(s) == pc = s /\ err = "none"

\* reanalysis = xr.open_zarr(...); msl = reanalysis.msl; t2m = reanalysis.t2m
OpenDataset ==
    /\ AtStep("open")
    /\ \E ok \in BOOLEAN :
          IF ok THEN reanalysis' = TRUE /\ Advance("open")
          ELSE reanalysis' = reanalysis /\ Raise("open", "OSError")
    /\ UNCHANGED <<remote, msl93, t2m93, tri, longitude, latitude, mesh,
                   grid_mesh_msl, grid_mesh_t2m, da_msl, da_t2m, slp, t2m,
                   t2m_cropped, plots, ctVars>>

\* msl93 = msl.sel(time=slice(..)).compute().pipe(mirror_point_at_360),
\* and the same for t2m93
SelectTime ==
    /\ AtStep("select")
    /\ \E ok \in BOOLEAN :
          IF ok
          THEN /\ msl93' = mirror_point_at_360(
                               sel_time(Variable(remote, "msl"), SliceStart, SliceStop))
               /\ t2m93' = mirror_point_at_360(
                               sel_time(Variable(remote, "t2m"), SliceStart, SliceStop))
               /\ Advance("select")
          ELSE /\ UNCHANGED <<msl93, t2m93>>
               /\ Raise("select", "OSError")
    /\ UNCHANGED <<remote, reanalysis, tri, longitude, latitude, mesh,
                   grid_mesh_msl, grid_mesh_t2m, da_msl, da_t2m, slp, t2m,
                   t2m_cropped, plots, ctVars>>

\* tri = build_triangulation(msl93.longitude, msl93.latitude)
Triangulate ==
    /\ AtStep("triangulate")
    /\ LET built == build_triangulation(msl93.longitude, msl93.latitude)
       IN  IF built.raised
           THEN tri' = tri /\ Raise("triangulate", "QhullError")
           ELSE tri' = built /\ Advance("triangulate")
    /\ UNCHANGED <<remote, reanalysis, msl93, t2m93, longitude, latitude, mesh,
                   grid_mesh_msl, grid_mesh_t2m, da_msl, da_t2m, slp, t2m,
                   t2m_cropped, plots, ctVars>>

\* longitude = np.linspace(0, 360, ..); latitude = np.linspace(-90, 90, ..)
\* mesh = ..; grid_mesh_msl = interpolate(msl93.values, tri, mesh), and the
\* same for t2m
Interpolate ==
    /\ AtStep("interpolate")
    /\ LET lon == Linspace(0, 360, NLon)
           lat == Linspace(-90, 90, NLat)
           msh == meshgrid_ij(lon, lat)
       IN  /\ longitude' = lon
           /\ latitude' = lat
           /\ mesh' = msh
           /\ IF /\ interpolate_lookups_ok(msl93.values, tri, msh)
                 /\ interpolate_lookups_ok(t2m93.values, tri, msh)
              THEN /\ grid_mesh_msl' = interpolate(msl93.values, tri, msh)
                   /\ grid_mesh_t2m' = interpolate(t2m93.values, tri, msh)
                   /\ Advance("interpolate")
              ELSE /\ UNCHANGED <<grid_mesh_msl, grid_mesh_t2m>>
                   /\ Raise("interpolate", "IndexError")
    /\ UNCHANGED <<remote, reanalysis, msl93, t2m93, tri, da_msl, da_t2m, slp,
                   t2m, t2m_cropped, plots, ctVars>>

\* xr.DataArray(data=.., dims=["time", "longitude", "latitude"], coords=..)
DataArray(data, time, lon, lat, name) ==
    [name |-> name, dims |-> <<"time", "longitude", "latitude">>,
     time |-> time, longitude |-> lon, latitude |-> lat, values |-> data]

\* da_msl = xr.DataArray(grid_mesh_msl, ..); da_t2m = xr.DataArray(grid_mesh_t2m, ..)
Construct ==
    /\ AtStep("construct")
    /\ da_msl' = DataArray(grid_mesh_msl, msl93.time, longitude, latitude, "msl")
    /\ da_t2m' = DataArray(grid_mesh_t2m, t2m93.time, longitude, latitude, "t2m")
    /\ Advance("construct")
    /\ UNCHANGED <<remote, reanalysis, msl93, t2m93, tri, longitude, latitude,
                   mesh, grid_mesh_msl, grid_mesh_t2m, slp, t2m, t2m_cropped,
                   plots, ctVars>>

\* da / q, elementwise.
ArrayDiv(da, q) ==
    [da EXCEPT !.values = [t \in 1..Len(da.values) |->
        [i \in 1..Len(da.values[t]) |-> [j \in 1..Len(da.values[t][i]) |->
            RDiv(da.values[t][i][j], q)]]]]

\* da - q, elementwise.
ArraySub(da, q) ==
    [da EXCEPT !.values = [t \in 1..Len(da.values) |->
        [i \in 1..Len(da.values[t]) |-> [j \in 1..Len(da.values[t][i]) |->
            RSub(da.values[t][i][j], q)]]]]

\* slp = da_msl/100; t2m = da_t2m-273.15
Convert ==
    /\ AtStep("convert")
    /\ slp' = ArrayDiv(da_msl, RInt(100))
    /\ t2m' = ArraySub(da_t2m, Rat(27315, 100))
    /\ Advance("convert")
    /\ UNCHANGED <<remote, reanalysis, msl93, t2m93, tri, longitude, latitude,
                   mesh, grid_mesh_msl, grid_mesh_t2m, da_msl, da_t2m,
                   t2m_cropped, plots, ctVars>>

---------------------------------------------------------------------------
(* Plotting with Geoviews.                                                 *)

InSeq(x, seq) == \E k \in 1..Len(seq) : seq[k] = x

\* dataset.to(Element, eldims): the key dimensions the element does not
\* take are grouped over, and each of them gets a slider widget.
Render(kdims, eldims, pre) ==
    [shown |-> TRUE,
     slider |-> \E k \in 1..Len(kdims) : ~InSeq(kdims[k], eldims),
     precompute |-> pre, pos |-> 0, frame |-> 0]

\* A plot that never redraws.
RefreshNever(plot, t) == plot.frame

\* A plot that always redraws.
RefreshAlways(plot, t) == t

\* The frame a plot displays once its slider is moved to t: the new time
\* step, except that a rasterized plot (precompute=True) is not redrawn.
Refresh(plot, t) == IF plot.precompute THEN plot.frame ELSE t

Display(n, plot, s) ==
    /\ AtStep(s)
    /\ \E ok \in BOOLEAN :
          IF ok THEN plots' = [plots EXCEPT ![n] = plot] /\ Advance(s)
          ELSE plots' = plots /\ Raise(s, "RenderError")
    /\ UNCHANGED <<remote, reanalysis, msl93, t2m93, tri, longitude, latitude,
                   mesh, grid_mesh_msl, grid_mesh_t2m, da_msl, da_t2m, slp,
                   t2m, t2m_cropped, ctVars>>

\* dataset_era = gv.Dataset(slp.isel(time=0), kdims=['longitude','latitude'], ..)
\* contour = gv.project(dataset_era.to(gv.LineContours, ['longitude','latitude'], ..))
\* (gv.tile_sources.OSM * contour).opts(..)
PlotMslSingle ==
    Display("contour0",
            Render(<<"longitude", "latitude">>, <<"longitude", "latitude">>, FALSE),
            "plot_msl_single")

\* dataset_era = gv.Dataset(slp, kdims=['longitude','latitude','time'], ..)
\* contour = gv.project(dataset_era.to(gv.LineContours, ['longitude','latitude']))
\* (gv.tile_sources.OSM * contour).opts(..)
PlotMslTime ==
    Display("contour",
            Render(<<"longitude", "latitude", "time">>, <<"longitude", "latitude">>, FALSE),
            "plot_msl_time")

\* def lon_to_360(dlon): return ((360 + (dlon % 360)) % 360)
\* A conversion that leaves a west-negative longitude as it is.
lon_to_360_unconverted(dlon) == dlon

\* def lon_to_360(dlon): return ((360 + (dlon % 360)) % 360)
lon_to_360(dlon) == (360 + (dlon % 360)) % 360

\* cond = (t2m.longitude > lon_to_360(lonW)) & (t2m.latitude > latS) &
\*        (t2m.longitude < lon_to_360(lonE)) & (t2m.latitude < latN)
Cond(da) ==
    [i \in 1..Len(da.longitude) |-> [j \in 1..Len(da.latitude) |->
        /\ RLess(RInt(lon_to_360(lonW)), da.longitude[i])
        /\ RLess(RInt(latS), da.latitude[j])
        /\ RLess(da.longitude[i], RInt(lon_to_360(lonE)))
        /\ RLess(da.latitude[j], RInt(latN))]]

\* da.where(cond, drop=True): values where cond is false become NaN, and
\* the labels along which cond is false everywhere are dropped.
where_drop(da, cond) ==
    LET keepLon == SortedSeq({i \in 1..Len(da.longitude) :
                                 \E j \in 1..Len(da.latitude) : cond[i][j]})
        keepLat == SortedSeq({j \in 1..Len(da.latitude) :
                                 \E i \in 1..Len(da.longitude) : cond[i][j]})
    IN  [da EXCEPT
            !.longitude = Take(da.longitude, keepLon),
            !.latitude = Take(da.latitude, keepLat),
            !.values = [t \in 1..Len(da.values) |->
                [a \in 1..Len(keepLon) |-> [b \in 1..Len(keepLat) |->
                    IF cond[keepLon[a]][keepLat[b]]
                    THEN da.values[t][keepLon[a]][keepLat[b]]
                    ELSE NaN]]]]

\* t2m_cropped = t2m.where(cond, drop=True)
Crop ==
    /\ AtStep("crop")
    /\ t2m_cropped' = where_drop(t2m, Cond(t2m))
    /\ Advance("crop")
    /\ UNCHANGED <<remote, reanalysis, msl93, t2m93, tri, longitude, latitude,
                   mesh, grid_mesh_msl, grid_mesh_t2m, da_msl, da_t2m, slp,
                   t2m, plots, ctVars>>

\* dataset_era = gv.Dataset(t2m_cropped, kdims=['longitude','latitude','time'], ..)
\* qm = gv.project(dataset_era.to(gv.QuadMesh, ['longitude', 'latitude']))
\* (gv.tile_sources.OSM().opts(..) * (qm.opts(..)))
PlotQm ==
    Display("qm",
            Render(<<"longitude", "latitude", "time">>, <<"longitude", "latitude">>, FALSE),
            "plot_qm")

\* qm_raster = rasterize(qm, precompute=True)
\* (gv.tile_sources.OSM().opts(..) * (qm_raster.opts(..)))
PlotRaster ==
    Display("qm_raster",
            Render(<<"longitude", "latitude", "time">>, <<"longitude", "latitude">>, TRUE),
            "plot_raster")

\* The array a plot draws from.
PlotSource(n) == IF n \in {"contour0", "contour"} THEN slp ELSE t2m_cropped

\* The reader drags the time slider of a displayed plot to time step t.
MoveSlider ==
    /\ \E n \in PlotNames : \E t \in 0..(SliceLen - 1) :
          /\ plots[n].shown /\ plots[n].slider
          /\ t < Len(PlotSource(n).time)
          /\ t # plots[n].pos
          /\ plots' = [plots EXCEPT ![n].pos = t,
                                    ![n].frame = Refresh(plots[n], t)]
    /\ UNCHANGED <<remote, pc, err, log, attempts, reanalysis, msl93, t2m93,
                   tri, longitude, latitude, mesh, grid_mesh_msl,
                   grid_mesh_t2m, da_msl, da_t2m, slp, t2m, t2m_cropped,
                   ctVars>>

NextNotebook ==
    \/ OpenDataset
    \/ SelectTime
    \/ Triangulate
    \/ Interpolate
    \/ Construct
    \/ Convert
    \/ PlotMslSingle
    \/ PlotMslTime
    \/ Crop
    \/ PlotQm
    \/ PlotRaster
    \/ MoveSlider

---------------------------------------------------------------------------
(* The container image file.                                               *)
(* An instruction is [op, arg, rev]: rev counts the edits of its text      *)
(* (another websocket origin, another flag), which leave its modelled      *)
(* effect alone.                                                           *)

I(op, arg) == [op |-> op, arg |-> arg, rev |-> 0]

AptInstallGit == "apt-get update && apt-get install -y git-all"
GitClone == "git clone https://github.com/ProjectPythia/ERA5_interactive-cookbook.git"
EnvCreate == "micromamba env create -f ERA5_interactive-cookbook/environment.yml"
MvNotebook == "mv ERA5_interactive-cookbook/notebooks/04_dashboard.ipynb ."
RmRepo == "rm -r ERA5_interactive-cookbook/"
PanelServe == <<"panel", "serve", "04_dashboard.ipynb",
                "--allow-websocket-origin=*", "--autoreload">>

Repo == "ERA5_interactive-cookbook"
AppDir == "/home/mambauser/app"

\* The file with the relocation and the cleanup exchanged.
ContainerfileRmFirst ==
    << I("FROM", "docker.io/mambaorg/micromamba:latest"),
       I("USER", "root"),
       I("RUN", AptInstallGit),
       I("WORKDIR", AppDir),
       I("RUN", GitClone),
       I("RUN", EnvCreate),
       I("RUN", RmRepo),
       I("RUN", MvNotebook),
       I("EXPOSE", 5006),
       I("USER", "mambauser"),
       I("CMD", PanelServe) >>

\* The file without the switch back to mambauser.
ContainerfileStaysRoot ==
    << I("FROM", "docker.io/mambaorg/micromamba:latest"),
       I("USER", "root"),
       I("RUN", AptInstallGit),
       I("WORKDIR", AppDir),
       I("RUN", GitClone),
       I("RUN", EnvCreate),
       I("RUN", MvNotebook),
       I("RUN", RmRepo),
       I("EXPOSE", 5006),
       I("USER", "root"),
       I("CMD", PanelServe) >>

\* The file with the environment name set at build time.
ContainerfileSetsEnvName ==
    << I("FROM", "docker.io/mambaorg/micromamba:latest"),
       I("USER", "root"),
       I("RUN", AptInstallGit),
       I("WORKDIR", AppDir),
       I("RUN", GitClone),
       I("RUN", EnvCreate),
       I("RUN", MvNotebook),
       I("RUN", RmRepo),
       I("ENV", "ENV_NAME"),
       I("EXPOSE", 5006),
       I("USER", "mambauser"),
       I("CMD", PanelServe) >>

\* notebooks/Containerfile
Containerfile ==
    << I("FROM", "docker.io/mambaorg/micromamba:latest"),
       I("USER", "root"),
       I("RUN", AptInstallGit),
       I("WORKDIR", AppDir),
       I("RUN", GitClone),
       I("RUN", EnvCreate),
       I("RUN", MvNotebook),
       I("RUN", RmRepo),
       I("EXPOSE", 5006),
       I("USER", "mambauser"),
       I("CMD", PanelServe) >>

\* The packages environment.yml lists, and one that may be added to it.
BasePackages == {"panel", "geoviews", "xarray"}
AddedPackage == "dask"

\* The image FROM starts with: the micromamba base image, whose user is
\* mambauser and in which the environment name is not set.
BaseImage ==
    [user |-> "mambauser", workdir |-> "/tmp", os |-> {"micromamba"},
     files |-> {}, yml |-> {}, envs |-> {}, envvars |-> {}, ports |-> {},
     cmd |-> [argv |-> <<>>, rev |-> 0]]

RepoFiles == {<<AppDir, Repo, "environment.yml">>,
              <<AppDir, Repo, "notebooks/04_dashboard.ipynb">>}

\* The effect of one RUN command on the image; ok is FALSE when the
\* command exits with an error.
RunCommand(cmd, img, world) ==
    IF cmd = AptInstallGit
    THEN [ok |-> img.user = "root",
          img |-> [img EXCEPT !.os = @ \cup {"git"}]]
    ELSE IF cmd = GitClone
    THEN [ok |-> "git" \in img.os,
          img |-> [img EXCEPT !.files = @ \cup RepoFiles, !.yml = world]]
    ELSE IF cmd = EnvCreate
    THEN [ok |-> <<img.workdir, Repo, "environment.yml">> \in img.files,
          img |-> [img EXCEPT !.envs = @ \cup
                      {[name |-> "ERA5_interactive", pkgs |-> img.yml]}]]
    ELSE IF cmd = MvNotebook
    THEN [ok |-> <<img.workdir, Repo, "notebooks/04_dashboard.ipynb">> \in img.files,
          img |-> [img EXCEPT !.files =
                      (@ \ {<<img.workdir, Repo, "notebooks/04_dashboard.ipynb">>})
                      \cup {<<img.workdir, ".", "04_dashboard.ipynb">>}]]
    ELSE IF cmd = RmRepo
    THEN [ok |-> \E f \in img.files : f[1] = img.workdir /\ f[2] = Repo,
          img |-> [img EXCEPT !.files =
                      {f \in @ : ~(f[1] = img.workdir /\ f[2] = Repo)}]]
    ELSE [ok |-> FALSE, img |-> img]

\* The effect of one instruction on the image state left by the earlier
\* ones.  world is what environment.yml lists in the git repository (RUN
\* git clone) and in the build context (COPY) when the instruction runs.
Exec(instr, img, world) ==
    IF instr.op = "FROM" THEN [ok |-> TRUE, img |-> BaseImage]
    ELSE IF instr.op = "USER"
    THEN [ok |-> TRUE, img |-> [img EXCEPT !.user = instr.arg]]
    ELSE IF instr.op = "WORKDIR"
    THEN [ok |-> TRUE, img |-> [img EXCEPT !.workdir = instr.arg]]
    ELSE IF instr.op = "RUN" THEN RunCommand(instr.arg, img, world)
    ELSE IF instr.op = "COPY"
    THEN [ok |-> TRUE,
          img |-> [img EXCEPT !.files = @ \cup {<<img.workdir, Repo, "environment.yml">>},
                              !.yml = world]]
    ELSE IF instr.op = "ENV"
    THEN [ok |-> TRUE, img |-> [img EXCEPT !.envvars = @ \cup {instr.arg}]]
    ELSE IF instr.op = "EXPOSE"
    THEN [ok |-> TRUE, img |-> [img EXCEPT !.ports = @ \cup {instr.arg}]]
    ELSE IF instr.op = "CMD"
    THEN [ok |-> TRUE,
          img |-> [img EXCEPT !.cmd = [argv |-> instr.arg, rev |-> instr.rev]]]
    ELSE [ok |-> FALSE, img |-> img]

---------------------------------------------------------------------------
(* Building the image: docker buildx build -f Containerfile -t .. .        *)

\* What identifies a layer besides its parent: the instruction's text, and
\* for COPY the content of the files it copies from the build context.
LayerKey(instr, context) ==
    IF instr.op = "COPY" THEN [instr |-> instr, content |-> context]
    ELSE [instr |-> instr, content |-> {}]

\* The chain of layer keys of the first i instructions.
Chain(file, i, context) == [k \in 1..i |-> LayerKey(file[k], context)]

\* A cache that looks a layer up by its own instruction and forgets the
\* layers below it.
CachedLayersByInstruction(layers, chain) ==
    {e \in layers : e.chain[Len(e.chain)] = chain[Len(chain)]}

\* The cached layers a build may reuse for a chain: a layer is reused only
\* when it and every layer before it are unchanged.
CachedLayers(layers, chain) == {e \in layers : e.chain = chain}

NoBuild ==
    [phase |-> "idle", n |-> 0, i |-> 1, file |-> <<>>, img |-> BaseImage,
     hits |-> <<>>, world |-> {}, prev |-> <<>>]

NoContainer ==
    [running |-> FALSE, user |-> "", envName |-> "", port |-> 0,
     apps |-> {}, serving |-> FALSE]

InitContainer ==
    /\ containerfile = Containerfile
    /\ repoEnv = BasePackages
    /\ cache = {}
    /\ build = NoBuild
    /\ image = [built |-> FALSE, img |-> BaseImage]
    /\ container = NoContainer

Revisions(file) ==
    LET RECURSIVE Sum(_)
        Sum(k) == IF k = 0 THEN 0 ELSE file[k].rev + Sum(k - 1)
    IN  Sum(Len(file))

\* The text of one instruction of the image file is changed.
EditInstruction ==
    /\ build.phase # "running"
    /\ Revisions(containerfile) < MaxEdits
    /\ \E k \in 1..Len(containerfile) :
          containerfile' = [containerfile EXCEPT ![k].rev = @ + 1]
    /\ UNCHANGED <<repoEnv, cache, build, image, container, nbVars>>

\* A package is added to environment.yml.
AddPackage ==
    /\ build.phase # "running"
    /\ AddedPackage \notin repoEnv
    /\ repoEnv' = repoEnv \cup {AddedPackage}
    /\ UNCHANGED <<containerfile, cache, build, image, container, nbVars>>

StartBuild ==
    /\ build.phase # "running"
    /\ build.n < MaxBuilds
    /\ build' = [phase |-> "running", n |-> build.n + 1, i |-> 1,
                 file |-> containerfile, img |-> BaseImage, hits |-> <<>>,
                 world |-> repoEnv,
                 prev |-> IF build.phase = "done" THEN build.file ELSE build.prev]
    /\ UNCHANGED <<containerfile, repoEnv, cache, image, container, nbVars>>

\* The state of the build after instruction i has yielded layer img.
AfterLayer(img, hit) ==
    [build EXCEPT
        !.phase = IF build.i = Len(build.file) THEN "done" ELSE "running",
        !.i = @ + 1,
        !.img = img,
        !.hits = Append(@, hit)]

\* The next instruction of the file yields its layer: reused from the cache,
\* or built on the image state the earlier instructions left; the finished
\* image is exported and tagged.
BuildStep ==
    /\ build.phase = "running"
    /\ LET chain == Chain(build.file, build.i, repoEnv)
           found == CachedLayers(cache, chain)
           res   == Exec(build.file[build.i], build.img, repoEnv)
       IN  IF found # {}
           THEN /\ build' = AfterLayer((CHOOSE e \in found : TRUE).img, TRUE)
                /\ cache' = cache
           ELSE IF res.ok
           THEN /\ build' = AfterLayer(res.img, FALSE)
                /\ cache' = cache \cup {[chain |-> chain, img |-> res.img]}
           ELSE /\ build' = [build EXCEPT !.phase = "failed"]
                /\ cache' = cache
    /\ image' = IF build'.phase = "done"
                THEN [built |-> TRUE, img |-> build'.img]
                ELSE image
    /\ UNCHANGED <<containerfile, repoEnv, container, nbVars>>

---------------------------------------------------------------------------
(* Running the image: docker run -e ENV_NAME=.. -p 5006:5006 <image>       *)

PanelDefaultPort == 5006

PanelFlags == {"--allow-websocket-origin=*", "--autoreload"}

\* The notebooks `panel serve` is given: the arguments that are not flags.
ServedApps(argv) ==
    IF Len(argv) >= 2 /\ argv[1] = "panel" /\ argv[2] = "serve"
    THEN {argv[k] : k \in {j \in 3..Len(argv) : argv[j] \notin PanelFlags}}
    ELSE {}

\* The environment activated at start: the one ENV_NAME names.  No
\* instruction of the image file gives ENV_NAME a value, so it is the one
\* the -e flag of the run supplies ("" when the flag is left out).
EnvName(img, supplied) == supplied

\* docker run: the startup command runs as the image's user, in the
\* environment ENV_NAME selects; panel serves when that environment exists
\* and holds it.
RunContainer ==
    /\ image.built
    /\ ~container.running
    /\ \E supplied \in {"", "ERA5_interactive", "base"} :
          container' =
            [running |-> TRUE,
             user |-> image.img.user,
             envName |-> EnvName(image.img, supplied),
             port |-> PanelDefaultPort,
             apps |-> ServedApps(image.img.cmd.argv),
             serving |->
                /\ \E e \in image.img.envs :
                      /\ e.name = EnvName(image.img, supplied)
                      /\ "panel" \in e.pkgs
                /\ \A a \in ServedApps(image.img.cmd.argv) :
                      <<image.img.workdir, ".", a>> \in image.img.files]
    /\ UNCHANGED <<containerfile, repoEnv, cache, build, image, nbVars>>

StopContainer ==
    /\ container.running
    /\ container' = NoContainer
    /\ UNCHANGED <<containerfile, repoEnv, cache, build, image, nbVars>>

NextContainer ==
    \/ EditInstruction
    \/ AddPackage
    \/ StartBuild
    \/ BuildStep
    \/ RunContainer
    \/ StopContainer

---------------------------------------------------------------------------
(* Specifications.                                                         *)

\* The notebook runs; nothing is built.
InitNb == InitNotebook /\ InitContainer

SpecNotebook == InitNb /\ [][NextNotebook]_vars

\* The notebook's state while the image is built and run.
IdleNotebook ==
    /\ remote = Unbound
    /\ pc = "open"
    /\ err = "none"
    /\ log = <<>>
    /\ attempts = [s \in {Steps[k] : k \in 1..Len(Steps)} |-> 0]
    /\ reanalysis = FALSE
    /\ msl93 = Unbound /\ t2m93 = Unbound
    /\ tri = Unbound
    /\ longitude = Unbound /\ latitude = Unbound /\ mesh = Unbound
    /\ grid_mesh_msl = Unbound /\ grid_mesh_t2m = Unbound
    /\ da_msl = Unbound /\ da_t2m = Unbound
    /\ slp = Unbound /\ t2m = Unbound
    /\ t2m_cropped = Unbound
    /\ plots = [n \in PlotNames |-> NoPlot]

\* The image is built, rebuilt and run.
InitCt == IdleNotebook /\ InitContainer

SpecContainer == InitCt /\ [][NextContainer]_vars

---------------------------------------------------------------------------
(* Properties of the regridding notebook (SpecNotebook).                   *)

Ran(s) == InSeq(s, log)

\* Twice the signed area of a, b, x for integer a, b and a rational x.
OrientQ(a, b, x) ==
    RSub(RMul(RInt(b[1] - a[1]), RSub(x[2], RInt(a[2]))),
         RMul(RInt(b[2] - a[2]), RSub(x[1], RInt(a[1]))))

\* The directed edges of the convex hull of the points: the pairs with
\* every point on or to the left of the line through them.
HullEdges(points) ==
    {e \in (1..Len(points)) \X (1..Len(points)) :
        /\ e[1] # e[2]
        /\ \A p \in 1..Len(points) :
              Orient(points[e[1]], points[e[2]], points[p]) >= 0}

\* x lies outside the convex hull of the points: it is strictly to the right
\* of some hull edge.
OutsideHull(points, edges, x) ==
    \E e \in edges : RLess(OrientQ(points[e[1]], points[e[2]], x), RInt(0))

\* interpolate has just returned: the run stands at the cell after it.
Returned(s) == Ran(s) /\ pc = NextStep(s)

\* C1: when interpolate returns, every mesh point outside the convex hull of
\* the source samples is located at simplex -1 and holds NaN in both
\* regridded arrays at every time step; interpolate raises no error.
C1_OutOfHullIsNaN ==
    /\ err # "IndexError"
    /\ Returned("interpolate") =>
          LET edges == HullEdges(tri.points) IN
          \A i \in 1..Len(mesh) : \A j \in 1..Len(mesh[i]) :
              OutsideHull(tri.points, edges, mesh[i][j]) =>
                  /\ find_simplex(tri, mesh[i][j]) = -1
                  /\ \A t \in 1..Len(grid_mesh_msl) :
                        /\ IsNaN(grid_mesh_msl[t][i][j])
                        /\ IsNaN(grid_mesh_t2m[t][i][j])

\* C1's case: interpolate has returned, some mesh point is outside the hull
\* and holds NaN, and some mesh point is inside and holds a value.
C1_Witness ==
    /\ Returned("interpolate") /\ err = "none"
    /\ \E i \in 1..Len(mesh) : \E j \in 1..Len(mesh[i]) :
          /\ OutsideHull(tri.points, HullEdges(tri.points), mesh[i][j])
          /\ IsNaN(grid_mesh_msl[1][i][j])
    /\ \E i \in 1..Len(mesh) : \E j \in 1..Len(mesh[i]) :
          ~IsNaN(grid_mesh_msl[1][i][j])

StageRank(g) ==
    CASE g = "open dataset" -> 1
      [] g = "select/crop" -> 2
      [] g = "triangulate" -> 3
      [] g = "interpolate" -> 4
      [] g = "construct result array" -> 5
      [] g = "plot" -> 6

\* C2 as stated: the steps run in the single-pass order open dataset,
\* select/crop, triangulate, interpolate, construct result array, plot; no
\* step of an earlier stage runs after a step of a later one.
C2_SinglePassOrder ==
    \A a \in 1..Len(log) : \A b \in 1..Len(log) :
        a < b => StageRank(Stage(log[a])) <= StageRank(Stage(log[b]))

StageOrder ==
    <<"open dataset", "select/crop", "triangulate", "interpolate",
      "construct result array", "construct result array", "plot", "plot",
      "select/crop", "plot", "plot">>

\* C2 amended: the steps run strictly one after another, each once, in the
\* order open dataset, select, triangulate, interpolate, construct result
\* array (and convert units), plot MSLP twice, crop T2M, plot T2M twice: the
\* crop runs after the first plots, and the next step is the one that
\* follows the last completed one.
C2_CellOrder ==
    /\ Len(log) <= Len(StageOrder)
    /\ \A k \in 1..Len(log) : Stage(log[k]) = StageOrder[k]
    /\ \A a \in 1..Len(log) : \A b \in 1..Len(log) : a # b => log[a] # log[b]
    /\ pc = (IF Len(log) = Len(Steps) THEN "end" ELSE Steps[Len(log) + 1])

\* C2's case: the notebook has run to its end, the crop after a plot.
C2_Witness ==
    /\ pc = "end"
    /\ \E a \in 1..Len(log) : \E b \in 1..Len(log) :
          a < b /\ Stage(log[a]) = "plot" /\ log[b] = "crop"

\* The frame of its source a plot displays.
Shown(n) == PlotSource(n).values[plots[n].frame + 1]

AtSlider(n) == PlotSource(n).values[plots[n].pos + 1]

\* C5: once the rasterized quadmesh is displayed, no slider move changes
\* the frame it shows.
C5_RasterNeverRefreshes ==
    [][plots["qm_raster"].shown =>
          plots'["qm_raster"].frame = plots["qm_raster"].frame]_vars

\* C5's case: the slider of the rasterized plot has been moved to a time
\* step whose data differ from the data still displayed.
C5_Witness ==
    /\ plots["qm_raster"].shown
    /\ plots["qm_raster"].pos # 0
    /\ plots["qm_raster"].frame = 0
    /\ Shown("qm_raster") # AtSlider("qm_raster")

\* C6: a plot built with time as a key dimension and not rasterized has a
\* time slider and displays the time step its slider selects; the plot of
\* the single time step has no slider.
C6_SliderUpdatesPlot ==
    /\ \A n \in {"contour", "qm"} :
          plots[n].shown => plots[n].slider /\ plots[n].frame = plots[n].pos
    /\ plots["contour0"].shown => ~plots["contour0"].slider

\* C6's case: the slider of the contour plot has been moved and the plot
\* shows the data of the new time step, which differ from the first one's.
C6_Witness ==
    /\ plots["contour"].shown /\ plots["contour"].slider
    /\ plots["contour"].pos # 0
    /\ Shown("contour") = slp.values[plots["contour"].pos + 1]
    /\ Shown("contour") # slp.values[1]

PlotOf(s) ==
    CASE s = "plot_msl_single" -> "contour0"
      [] s = "plot_msl_time" -> "contour"
      [] s = "plot_qm" -> "qm"
      [] s = "plot_raster" -> "qm_raster"

\* C10: every call is issued at most once; a step that was issued has
\* either returned (it is in the log) or its error stands and the run is
\* stopped at it; after an error no later step has been issued, is in the
\* log or has displayed its plot.
C10_FailStop ==
    /\ \A k \in 1..Len(Steps) : attempts[Steps[k]] <= 1
    /\ \A k \in 1..Len(Steps) :
          attempts[Steps[k]] = 1 =>
              \/ Ran(Steps[k])
              \/ err # "none" /\ pc = Steps[k]
    /\ err # "none" =>
          /\ pc # "end"
          /\ ~Ran(pc)
          /\ \A k \in 1..Len(Steps) :
                k > StepNo(pc) =>
                    /\ attempts[Steps[k]] = 0
                    /\ ~Ran(Steps[k])
          /\ \A k \in StepNo(pc)..Len(Steps) :
                Stage(Steps[k]) = "plot" => ~plots[PlotOf(Steps[k])].shown

\* C10's case: a call has failed after earlier steps returned.
C10_Witness ==
    /\ err = "OSError" /\ pc = "select" /\ log = <<"open">>
    /\ attempts["select"] = 1

\* The weights of x in the triangle of three points, by areas: the weight
\* of a vertex is the area of the triangle x spans with the other two,
\* over the area of the whole triangle.
AreaWeights(points, simplex, x) ==
    LET a == points[simplex[1] + 1]
        b == points[simplex[2] + 1]
        c == points[simplex[3] + 1]
        area == RInt(Orient(a, b, c))
    IN  <<RDiv(OrientQ(b, c, x), area),
          RDiv(OrientQ(c, a, x), area),
          RDiv(OrientQ(a, b, x), area)>>

\* The sum of the three vertex values of a row, weighted by w.
VertexSum(row, simplex, w) ==
    RAdd(RAdd(RMul(row[simplex[1] + 1], w[1]), RMul(row[simplex[2] + 1], w[2])),
         RMul(row[simplex[3] + 1], w[3]))

\* grid holds, at mesh point (i, j) and every time step, the sum of the
\* values of data at the vertices of a simplex containing x, weighted by
\* area weights that are non-negative and sum to 1.
IsBarycentric(grid, data, i, j, x) ==
    \E s \in 1..Len(tri.simplices) :
        LET w == AreaWeights(tri.points, tri.simplices[s], x)
        IN  /\ \A k \in 1..3 : RGeqZero(w[k])
            /\ RAdd(RAdd(w[1], w[2]), w[3]) = RInt(1)
            /\ \A t \in 1..Len(data) :
                  grid[t][i][j] = VertexSum(data[t], tri.simplices[s], w)

\* The mesh point x is the source sample number p.
Coincides(p, x) == x = <<RInt(tri.points[p][1]), RInt(tri.points[p][2])>>

\* C11: when interpolate returns, at every mesh point inside the convex
\* hull of the source samples and at every time step, both regridded arrays
\* hold the barycentric interpolation of the source data (the sum of the
\* values at the three vertices of a simplex containing the point, with
\* weights that sum to 1), and at a mesh point that coincides with a source
\* sample they hold that sample's value.
C11_BarycentricInterpolation ==
    Returned("interpolate") =>
        LET edges == HullEdges(tri.points) IN
        \A i \in 1..Len(mesh) : \A j \in 1..Len(mesh[i]) :
            ~OutsideHull(tri.points, edges, mesh[i][j]) =>
                /\ IsBarycentric(grid_mesh_msl, msl93.values, i, j, mesh[i][j])
                /\ IsBarycentric(grid_mesh_t2m, t2m93.values, i, j, mesh[i][j])
                /\ \A p \in 1..Len(tri.points) : \A t \in 1..Len(grid_mesh_msl) :
                      Coincides(p, mesh[i][j]) =>
                          /\ grid_mesh_msl[t][i][j] = msl93.values[t][p]
                          /\ grid_mesh_t2m[t][i][j] = t2m93.values[t][p]

\* C11's case: interpolate has returned; one mesh point coincides with the
\* raised sample and holds its value, and another lies strictly between
\* samples and holds a value that is none of the values of its time step.
C11_Witness ==
    /\ Returned("interpolate") /\ err = "none"
    /\ \E i \in 1..Len(mesh) : \E j \in 1..Len(mesh[i]) :
          \E p \in 1..Len(tri.points) :
              /\ Coincides(p, mesh[i][j])
              /\ grid_mesh_msl[1][i][j] = msl93.values[1][p]
              /\ \E q \in 1..Len(tri.points) :
                    msl93.values[1][q] # msl93.values[1][p]
    /\ \E i \in 1..Len(mesh) : \E j \in 1..Len(mesh[i]) :
          /\ ~IsNaN(grid_mesh_msl[1][i][j])
          /\ \A p \in 1..Len(tri.points) :
                /\ ~Coincides(p, mesh[i][j])
                /\ grid_mesh_msl[1][i][j] # msl93.values[1][p]

\* axis is the uniform grid of num points from start to stop, both ends
\* included.
IsUniformGrid(axis, start, stop, num) ==
    /\ Len(axis) = num
    /\ axis[1] = RInt(start) /\ axis[num] = RInt(stop)
    /\ \A k \in 1..(num - 1) :
          RSub(axis[k + 1], axis[k]) = Rat(stop - start, num - 1)

\* The axes the regridding cell asks for have 1441 and 721 points, a quarter
\* of a degree apart.
QuarterDegreeAxes ==
    /\ LonNum = 1441 /\ LatNum = 721
    /\ IsUniformGrid(Linspace(0, 360, LonNum), 0, 360, LonNum)
    /\ IsUniformGrid(Linspace(-90, 90, LatNum), -90, 90, LatNum)
    /\ Rat(360 - 0, LonNum - 1) = Rat(1, 4)
    /\ Rat(90 - (-90), LatNum - 1) = Rat(1, 4)

\* The labels of the store's time axis that lie in the selected slice.
SliceLabels ==
    LET keep == {k \in 1..Len(remote.time) :
                    SliceStart <= remote.time[k] /\ remote.time[k] <= SliceStop}
    IN  [n \in 1..Cardinality(keep) |->
            remote.time[CHOOSE k \in keep :
                            Cardinality({u \in keep : u <= k}) = n]]

\* da is indexed time x regular longitude x regular latitude, and its
\* element (t, i, j) is the interpolation of time step t of src at the
\* point (longitude[i], latitude[j]).
IsRegridOf(da, src) ==
    /\ da.dims = <<"time", "longitude", "latitude">>
    /\ da.time = src.time /\ da.time = SliceLabels
    /\ IsUniformGrid(da.longitude, 0, 360, NLon)
    /\ IsUniformGrid(da.latitude, -90, 90, NLat)
    /\ Len(da.values) = Len(da.time)
    /\ \A t \in 1..Len(da.values) :
          /\ Len(da.values[t]) = Len(da.longitude)
          /\ \A i \in 1..Len(da.values[t]) :
                Len(da.values[t][i]) = Len(da.latitude)
    /\ \A t \in 1..Len(da.time) : \A i \in 1..Len(da.longitude) :
          \A j \in 1..Len(da.latitude) :
              da.values[t][i][j] =
                  interpolate(<<src.values[t]>>, tri,
                              << <<<<da.longitude[i], da.latitude[j]>>>> >>)[1][1][1]

\* C12: when the result arrays are constructed, each is indexed by time x
\* regular longitude x regular latitude: the time axis has the length and
\* labels of the selected source slice, the longitude axis is the uniform
\* grid 0..360 and the latitude axis the uniform grid -90..90 (1441 and 721
\* points in 0.25-degree steps for the numbers the notebook passes), and
\* the element at (t, i, j) is the interpolation of source time step t at
\* the point (longitude[i], latitude[j]).
C12_RegriddedAxes ==
    Returned("construct") =>
        /\ QuarterDegreeAxes
        /\ IsRegridOf(da_msl, msl93)
        /\ IsRegridOf(da_t2m, t2m93)

\* C12's case: the result arrays are constructed, with more than one time
\* step, axes of different lengths, and both values and missing values.
C12_Witness ==
    /\ Returned("construct") /\ err = "none"
    /\ Len(da_msl.time) = SliceLen /\ SliceLen > 1
    /\ Len(da_msl.longitude) # Len(da_msl.latitude)
    /\ da_msl.values[1] # da_msl.values[2]
    /\ \E i \in 1..Len(da_msl.longitude) : \E j \in 1..Len(da_msl.latitude) :
          ~IsNaN(da_msl.values[1][i][j])
    /\ \E i \in 1..Len(da_msl.longitude) : \E j \in 1..Len(da_msl.latitude) :
          IsNaN(da_msl.values[1][i][j])

\* The meridian of a west-negative longitude, counted eastwards from 0.
East(lon) == IF lon < 0 THEN lon + 360 ELSE lon

\* The point (x, y) lies in the region plotted for sea-level pressure:
\* between the meridians lonW and lonE and between the parallels latS and
\* latN, the bounding lines themselves excluded.
InRegion(x, y) ==
    /\ RLess(RInt(East(lonW)), x) /\ RLess(x, RInt(East(lonE)))
    /\ RLess(RInt(latS), y) /\ RLess(y, RInt(latN))

\* out is da restricted to the region: it keeps exactly the grid points of
\* da that lie in the region, in da's order, with da's values at every time
\* step, and has da's time axis.
CropsToRegion(da, out) ==
    LET keepLon == SortedSeq({i \in 1..Len(da.longitude) :
                       \E j \in 1..Len(da.latitude) :
                           InRegion(da.longitude[i], da.latitude[j])})
        keepLat == SortedSeq({j \in 1..Len(da.latitude) :
                       \E i \in 1..Len(da.longitude) :
                           InRegion(da.longitude[i], da.latitude[j])})
    IN  /\ out.time = da.time
        /\ out.longitude = Take(da.longitude, keepLon)
        /\ out.latitude = Take(da.latitude, keepLat)
        /\ Len(out.values) = Len(da.values)
        /\ \A t \in 1..Len(out.values) :
              /\ Len(out.values[t]) = Len(keepLon)
              /\ \A a \in 1..Len(keepLon) :
                    /\ Len(out.values[t][a]) = Len(keepLat)
                    /\ \A b \in 1..Len(keepLat) :
                          /\ InRegion(out.longitude[a], out.latitude[b])
                          /\ out.values[t][a][b] =
                                 da.values[t][keepLon[a]][keepLat[b]]

\* Labels of the quarter-degree axes on and next to the bounds of the
\* region, and one inside it, with a value per time step and grid point.
RegionEdgeArray ==
    LET lon == Take(Linspace(0, 360, LonNum),
                    <<920, 921, 922, 1061, 1200, 1201, 1202>>)
        lat == Take(Linspace(-90, 90, LatNum),
                    <<440, 441, 442, 501, 580, 581, 582>>)
    IN  DataArray([t \in 1..SliceLen |-> [i \in 1..Len(lon) |->
                      [j \in 1..Len(lat) |-> RInt(100 * t + 10 * i + j)]]],
                  [t \in 1..SliceLen |-> t], lon, lat, "t2m")

\* C13: the T2M crop selects the region plotted for sea-level pressure.
\* With lonW and lonE converted to the 0-360 convention by lon_to_360, the
\* cropped array keeps the grid points whose longitude lies between lonW and
\* lonE and whose latitude lies between latS and latN and drops every other
\* grid point, for all time steps alike; grid points on the bounding lines
\* are dropped.
C13_CropKeepsRegion ==
    Returned("crop") =>
        /\ lon_to_360(lonW) = East(lonW) /\ lon_to_360(lonE) = East(lonE)
        /\ CropsToRegion(t2m, t2m_cropped)
        /\ CropsToRegion(RegionEdgeArray,
                         where_drop(RegionEdgeArray, Cond(RegionEdgeArray)))

\* C13's case: the crop has run on an array with grid points inside and
\* outside the region; the cropped array has fewer labels on both axes,
\* keeps a value, and has every time step.
C13_Witness ==
    /\ Returned("crop") /\ err = "none"
    /\ Len(t2m_cropped.longitude) > 0
    /\ Len(t2m_cropped.longitude) < Len(t2m.longitude)
    /\ Len(t2m_cropped.latitude) > 0
    /\ Len(t2m_cropped.latitude) < Len(t2m.latitude)
    /\ Len(t2m_cropped.values) = SliceLen
    /\ ~IsNaN(t2m_cropped.values[1][1][1])
    /\ t2m_cropped.values[1] # t2m_cropped.values[2]

---------------------------------------------------------------------------
(* Properties of the image build and run (SpecContainer).                  *)

\* What each instruction of the image file is for; USER and WORKDIR set up
\* the instructions around them.
Category(instr) ==
    CASE instr.op = "FROM" -> "base image selection"
      [] instr.op = "RUN" /\ instr.arg = AptInstallGit -> "package installation"
      [] instr.op = "RUN" /\ instr.arg = GitClone -> "source retrieval"
      [] instr.op = "RUN" /\ instr.arg = EnvCreate -> "dependency installation"
      [] instr.op = "RUN" /\ instr.arg = MvNotebook -> "file relocation"
      [] instr.op = "RUN" /\ instr.arg = RmRepo -> "cleanup"
      [] instr.op = "EXPOSE" -> "exposed network port"
      [] instr.op = "CMD" -> "startup command"
      [] OTHER -> "setup"

InstructionOrder ==
    <<"base image selection", "package installation", "source retrieval",
      "dependency installation", "file relocation", "cleanup",
      "exposed network port", "startup command">>

\* The categories of the first n instructions of a file, setup left out.
Categories(file, n) ==
    LET RECURSIVE Cat(_)
        Cat(k) ==
            IF k = 0 THEN <<>>
            ELSE IF Category(file[k]) = "setup" THEN Cat(k - 1)
            ELSE Append(Cat(k - 1), Category(file[k]))
    IN  Cat(n)

IsPrefix(a, b) == Len(a) <= Len(b) /\ \A k \in 1..Len(a) : a[k] = b[k]

\* C3: the instructions run one at a time in the order base image
\* selection, package installation, source retrieval, dependency
\* installation, file relocation, cleanup, exposed port, startup command;
\* none fails, since each finds what the earlier ones left, and the
\* finished image holds what all of them left behind.
C3_InstructionOrder ==
    build.phase # "idle" =>
        /\ build.phase # "failed"
        /\ Len(build.hits) = build.i - 1
        /\ IsPrefix(Categories(build.file, build.i - 1), InstructionOrder)
        /\ build.i > 3 => "git" \in build.img.os
        /\ build.i > 6 => \E e \in build.img.envs : e.name = "ERA5_interactive"
        /\ build.phase = "done" =>
              /\ Categories(build.file, Len(build.file)) = InstructionOrder
              /\ build.img.workdir = AppDir
              /\ build.img.files = {<<AppDir, ".", "04_dashboard.ipynb">>}
              /\ build.img.ports = {5006}
              /\ build.img.cmd.argv = PanelServe

\* C3's case: a build from an empty cache has run every instruction.
C3_Witness ==
    /\ build.phase = "done"
    /\ \A k \in 1..Len(build.hits) : ~build.hits[k]

\* C4: a container started from the image has port 5006 and the one
\* notebook 04_dashboard.ipynb; no build instruction sets ENV_NAME, and the
\* dashboard is served exactly when the run supplies ENV_NAME naming the
\* installed environment.
C4_FixedPortOneAppEnvName ==
    /\ image.built => "ENV_NAME" \notin image.img.envvars
    /\ \A k \in 1..Len(containerfile) : containerfile[k].op # "ENV"
    /\ container.running =>
          /\ container.port = 5006
          /\ container.apps = {"04_dashboard.ipynb"}
          /\ container.serving <=> container.envName = "ERA5_interactive"

\* C4's case: a run with ENV_NAME supplied serves the dashboard, and one
\* without it would not.
C4_Witness ==
    /\ container.running /\ container.serving
    /\ container.envName = "ERA5_interactive"

\* The instructions at which two files of the same length differ.
Changed(f, g) == {k \in 1..Len(f) : f[k].rev # g[k].rev}

\* C7: when a build follows a finished build of a file that differs from
\* its own in one instruction, the layers before that instruction are
\* reused and the layer of that instruction and all later ones are built.
C7_CachePrefixReused ==
    (/\ build.phase = "done"
     /\ build.prev # <<>>
     /\ Cardinality(Changed(build.prev, build.file)) = 1)
    => \A i \in 1..Len(build.file) :
          build.hits[i] <=> \A k \in Changed(build.prev, build.file) : i < k

\* C7's case: only the last instruction (CMD) was changed, and the rebuild
\* has reused every layer but the last.
C7_Witness ==
    /\ build.phase = "done"
    /\ build.prev # <<>>
    /\ Changed(build.prev, build.file) = {Len(build.file)}
    /\ \A i \in 1..(Len(build.file) - 1) : build.hits[i]
    /\ ~build.hits[Len(build.file)]

\* C8 as stated: a build that starts after a package was added to
\* environment.yml yields an image whose environment holds that package.
C8_RebuildPicksUpPackage ==
    (build.phase = "done" /\ AddedPackage \in build.world)
    => \E e \in build.img.envs : AddedPackage \in e.pkgs

\* C9: the container runs as mambauser; during the build root is in effect
\* only from USER root up to the final USER mambauser, and no instruction
\* after that one is a USER instruction.
C9_RunsAsMambauser ==
    /\ container.running => container.user = "mambauser"
    /\ build.phase = "done" => build.img.user = "mambauser"
    /\ image.built => image.img.user = "mambauser"
    /\ build.phase # "idle" /\ build.img.user = "root" =>
          build.i > 2 /\ build.i <= 10
    /\ \A k \in 1..Len(containerfile) :
          containerfile[k].op = "USER" /\ containerfile[k].arg # "mambauser" =>
              \E j \in (k + 1)..Len(containerfile) :
                  containerfile[j].op = "USER" /\ containerfile[j].arg = "mambauser"

\* C9's case: the image was built, with root in effect on the way, and its
\* container runs as mambauser.
C9_Witness ==
    /\ container.running
    /\ container.user = "mambauser"
    /\ \E e \in cache : e.img.user = "root"

=============================================================================
